---------------------------- MODULE Spec2Model ----------------------------
(***************************************************************************)
(* Butterworth filter synthesis (codes/Q2/butterworth_filter.rs) and its   *)
(* frequency-response evaluation (codes/Q2/src/filter_response.rs).        *)
(*                                                                         *)
(* f64 values are modelled as decimal fixed-point numbers: the integer x   *)
(* stands for the real x / Scale.  Every multiplication and division       *)
(* rounds to the nearest representable value, as the f64 operations do.    *)
(* A result whose magnitude exceeds MaxVal, and every division by zero,    *)
(* is the single value NonFinite (f64 infinity or NaN), which every later  *)
(* operation propagates and every comparison rejects.                      *)
(***************************************************************************)
EXTENDS Integers, Sequences, FiniteSets

(* ------------------------------ bounds -------------------------------- *)
MaxOrder == 6
MaxCutoff == 5
MaxPoints == 6
\* the point counts of the two scans of find_3db_cutoff when it is run on
\* every designed filter (test_cutoff.rs itself uses test_num_points and
\* test_fine_points)
CoarsePoints == 8
FinePoints == 4
\* the largest order whose prototype poles are computed on their own
MaxPoleOrder == 16
\* the longest spectrum (circshift) and the largest number of bins
\* (estimate_frequency_offset); the largest |shift| given to circshift
MaxLen == 3
MaxShift == 4
\* the largest order of two designs run side by side
MaxParallelOrder == 3
\* the longest magnitude array and the largest num_peaks given to
\* find_multiple_peaks
MaxBins == 7
MaxPeaks == 3
\* the largest number of lines in the results file read by read_q1_results
MaxLines == 2

(* ------------------------- f64 arithmetic ----------------------------- *)
HalfScale == 1000
Scale == HalfScale * HalfScale
MaxInt == 2000
MaxVal == MaxInt * Scale
NonFinite == MaxVal + 1

Abs(x) == IF x < 0 THEN -x ELSE x
Sign(x) == IF x < 0 THEN -1 ELSE 1
Finite(x) == x # NonFinite
\* n / d for naturals n and d > 0, rounded to nearest
RoundDiv(n, d) == (n + d \div 2) \div d

\* the f64 of the integer n
F(n) == n * Scale

\* x + y for x, y >= 0: beyond MaxVal the sum is an infinity
AddAbs(x, y) == IF x > MaxVal - y THEN NonFinite ELSE x + y
WithSign(s, v) == IF Finite(v) THEN s * v ELSE NonFinite

Neg(a) == IF Finite(a) THEN -a ELSE NonFinite
Add(a, b) ==
  IF ~(Finite(a) /\ Finite(b)) THEN NonFinite
  ELSE IF a >= 0 /\ b >= 0 THEN AddAbs(a, b)
  ELSE IF a < 0 /\ b < 0 THEN Neg(AddAbs(-a, -b))
  ELSE a + b
Sub(a, b) == Add(a, Neg(b))

\* (xm * HalfScale + xn) * (ym * HalfScale + yn) / Scale, rounded to nearest
MulLow(xm, xn, ym, yn) ==
  xm * ym + RoundDiv((xm * yn + xn * ym) * HalfScale + xn * yn, Scale)

\* (xh + xl / Scale) * (yh + yl / Scale), by parts that fit the machine integer
MulParts(xh, xl, yh, yl) ==
  IF xh * yh > MaxInt THEN NonFinite
  ELSE AddAbs(AddAbs(AddAbs(xh * yh * Scale, xh * yl), xl * yh),
              MulLow(xl \div HalfScale, xl % HalfScale, yl \div HalfScale, yl % HalfScale))

MulAbs(x, y) == MulParts(x \div Scale, x % Scale, y \div Scale, y % Scale)

\* a * b: the exact product of the two values, rounded to nearest
Mul(a, b) ==
  IF Finite(a) /\ Finite(b) THEN WithSign(Sign(a) * Sign(b), MulAbs(Abs(a), Abs(b)))
  ELSE NonFinite

\* the digits of r / y (r < y) after the point, w the weight of the next one
RECURSIVE FracDigits(_, _, _)
FracDigits(r, y, w) ==
  IF w = 1 THEN (IF 2 * r >= y THEN 1 ELSE 0)
  ELSE ((r * 10) \div y) * (w \div 10) + FracDigits((r * 10) % y, y, w \div 10)

DivSmall(x, y) ==
  IF x \div y > MaxInt THEN NonFinite
  ELSE AddAbs((x \div y) * Scale, FracDigits(x % y, y, Scale))

\* x / y for x >= 0, y > 0; a divisor above MaxVal / 10 loses its last digit
DivAbs(x, y) ==
  IF y > MaxVal \div 10 THEN DivSmall(RoundDiv(x, 10), RoundDiv(y, 10))
  ELSE DivSmall(x, y)

\* a / b, rounded to nearest; x / 0 is an infinity or a NaN
Div(a, b) ==
  IF Finite(a) /\ Finite(b) /\ b # 0
  THEN WithSign(Sign(a) * Sign(b), DivAbs(Abs(a), Abs(b)))
  ELSE NonFinite

Lt(a, b) == Finite(a) /\ Finite(b) /\ a < b
FAbs(a) == IF Finite(a) THEN Abs(a) ELSE NonFinite

\* v / n for an integer n > 0, rounded to nearest
DivInt(v, n) == Sign(v) * RoundDiv(Abs(v), n)

(* -------------------------- std::f64 functions ------------------------ *)
PI == 3141593
HalfPi == PI \div 2
TwoPi == 2 * PI

\* the argument brought into (-PI, PI]
Reduce(x) == IF (x + PI) % TwoPi = 0 THEN PI ELSE ((x + PI) % TwoPi) - PI

\* the series term + term * (-x2) / (k (k + 1)) + ..., until a term rounds to 0
RECURSIVE Series(_, _, _)
Series(term, x2, k) ==
  IF term = 0 THEN 0
  ELSE term + Series(-DivInt(Mul(term, x2), k * (k + 1)), x2, k + 2)

SinSeries(x) == Series(x, Mul(x, x), 2)
CosSeries(x) == Series(Scale, Mul(x, x), 1)

SinReduced(x) ==
  IF x > HalfPi THEN SinSeries(PI - x)
  ELSE IF x < -HalfPi THEN SinSeries(-PI - x)
  ELSE SinSeries(x)

CosReduced(x) ==
  IF x > HalfPi THEN -CosSeries(PI - x)
  ELSE IF x < -HalfPi THEN -CosSeries(-PI - x)
  ELSE CosSeries(x)

Sin(a) == IF Finite(a) THEN SinReduced(Reduce(a)) ELSE NonFinite
Cos(a) == IF Finite(a) THEN CosReduced(Reduce(a)) ELSE NonFinite
Tan(a) == Div(Sin(a), Cos(a))

\* Newton's iteration for the square root, from above
RECURSIVE SqrtIter(_, _, _)
SqrtIter(x, y, z) == IF z >= y THEN y ELSE SqrtIter(x, z, (z + Div(x, z)) \div 2)

SqrtFrom(x, y) == SqrtIter(x, y, (y + Div(x, y)) \div 2)

Sqrt(a) ==
  IF ~Finite(a) \/ a < 0 THEN NonFinite
  ELSE IF a = 0 THEN 0
  ELSE SqrtFrom(a, IF a > Scale THEN a ELSE Scale)

\* the series u - u^3 / 3 + u^5 / 5 - ..., until a power rounds to 0
RECURSIVE AtanSeries(_, _, _)
AtanSeries(power, u2, k) ==
  IF power = 0 THEN 0
  ELSE DivInt(power, k) + AtanSeries(-Mul(power, u2), u2, k + 2)

AtanSmall(u) == AtanSeries(u, Mul(u, u), 1)

\* atan(r) for 0 <= r <= 1: above tan(PI / 8), PI / 4 + atan((r - 1) / (r + 1))
AtanUnit(r) ==
  IF Mul(r, r) + 2 * r > Scale
  THEN HalfPi \div 2 + AtanSmall(Div(r - Scale, r + Scale))
  ELSE AtanSmall(r)

\* the angle of (x, y) for x >= 0, y >= 0, not both 0
AtanQuadrant(y, x) ==
  IF y > x THEN HalfPi - AtanUnit(Div(x, y)) ELSE AtanUnit(Div(y, x))

Atan2(y, x) ==
  IF ~(Finite(y) /\ Finite(x)) THEN NonFinite
  ELSE IF x = 0 /\ y = 0 THEN 0
  ELSE IF x >= 0 THEN Sign(y) * AtanQuadrant(Abs(y), x)
  ELSE Sign(y) * (PI - AtanQuadrant(Abs(y), -x))

(* --------------------------- num_complex ------------------------------ *)
DivideBoth(re, im, norm_sqr) == <<Div(re, norm_sqr), Div(im, norm_sqr)>>

\* (nr + j ni) / (dr + j di)
ComplexQuotient(nr, ni, dr, di) ==
  DivideBoth(Add(Mul(nr, dr), Mul(ni, di)),
             Sub(Mul(ni, dr), Mul(nr, di)),
             Add(Mul(dr, dr), Mul(di, di)))

CDiv(n, d) == ComplexQuotient(n[1], n[2], d[1], d[2])
CAdd(u, v) == <<Add(u[1], v[1]), Add(u[2], v[2])>>
CScale(c, u) == <<Mul(c, u[1]), Mul(c, u[2])>>
Norm(h) == Sqrt(Add(Mul(h[1], h[1]), Mul(h[2], h[2])))
Arg(h) == Atan2(h[2], h[1])

(* ----------------------- butterworth_filter.rs ------------------------ *)
RECURSIVE SumSeq(_)
SumSeq(s) == IF s = <<>> THEN 0 ELSE Add(s[1], SumSeq(Tail(s)))

Min(x, y) == IF x < y THEN x ELSE y
Max(x, y) == IF x > y THEN x ELSE y

\* result[n] of convolve: the sum of the a[i] * b[j] with i + j = n
RECURSIVE ConvAt(_, _, _, _)
ConvAt(a, b, n, k) ==
  IF k > Min(Len(a), n) THEN 0
  ELSE Add(Mul(a[k], b[n + 1 - k]), ConvAt(a, b, n, k + 1))

convolve(a, b) ==
  [n \in 1..(Len(a) + Len(b) - 1) |-> ConvAt(a, b, n, Max(1, n + 1 - Len(b)))]

\* the pole with re and im exchanged
PoleAtSwapped(theta) == <<Sin(theta), Cos(theta)>>

PoleAt(theta) == <<Cos(theta), Sin(theta)>>

\* the angle without the quarter turn that puts the poles in the left half
\* plane
AnalogAngleFromZero(n, k) == Div(Mul(PI, F(2 * k + 1)), F(2 * n))

\* theta of pole k of the normalized prototype, k = 0 .. order - 1
AnalogAngle(n, k) == Div(Mul(PI, F(2 * k + n + 1)), F(2 * n))

AnalogPole(n, k) == PoleAt(AnalogAngle(n, k))

butterworth_analog_poles(n) == [k \in 1..n |-> AnalogPole(n, k - 1)]

Eps == 1

IsRealPole(p) == Lt(FAbs(p[2]), Eps)

\* the section of a real pole with its zero at z = 1: numerator [1, -1]
FirstOrderSectionZeroAtOne(pr1, dt) ==
  [b |-> <<F(1), F(-1)>>,
   a |-> <<F(1), Neg(Div(Add(F(2), Mul(pr1, dt)), Sub(F(2), Mul(pr1, dt))))>>]

\* the section of a real pole: numerator [1, 1], denominator [1, -z_pole]
FirstOrderSection(pr1, dt) ==
  [b |-> <<F(1), F(1)>>,
   a |-> <<F(1), Neg(Div(Add(F(2), Mul(pr1, dt)), Sub(F(2), Mul(pr1, dt))))>>]

\* mutant: the bilinear map inverted, (2 - p t) / (2 + p t)
DigitalPoleSwapped(pr1, pi1, dt) ==
  ComplexQuotient(Sub(F(2), Mul(pr1, dt)), Neg(Mul(pi1, dt)),
                  Add(F(2), Mul(pr1, dt)), Mul(pi1, dt))

\* the digital pole z1 = (2 + p t) / (2 - p t) of the complex pole p
DigitalPole(pr1, pi1, dt) ==
  ComplexQuotient(Add(F(2), Mul(pr1, dt)), Mul(pi1, dt),
                  Sub(F(2), Mul(pr1, dt)), Neg(Mul(pi1, dt)))

\* mutant: the denominator coefficients in the reverse order
SectionOfPoleReversed(z1) ==
  [b |-> <<F(1), F(2), F(1)>>,
   a |-> <<Add(Mul(z1[1], z1[1]), Mul(z1[2], z1[2])), Mul(F(-2), z1[1]), F(1)>>]

SectionOfPole(z1) ==
  [b |-> <<F(1), F(2), F(1)>>,
   a |-> <<F(1), Mul(F(-2), z1[1]), Add(Mul(z1[1], z1[1]), Mul(z1[2], z1[2]))>>]

\* the section of a complex pole: numerator [1, 2, 1], denominator [1, a1, a2]
SecondOrderSection(pr1, pi1, dt) == SectionOfPole(DigitalPole(pr1, pi1, dt))

\* the index advanced by 1 after every section
AddSectionAdvanceOne(st, sec, degree) ==
  [i |-> st.i + 1,
   b_total |-> convolve(st.b_total, sec.b),
   a_total |-> convolve(st.a_total, sec.a),
   sections |-> Append(st.sections, [degree |-> degree, pole |-> st.i])]

\* b_total, a_total convolved with a section, the index advanced
AddSection(st, sec, degree) ==
  [i |-> st.i + degree,
   b_total |-> convolve(st.b_total, sec.b),
   a_total |-> convolve(st.a_total, sec.a),
   sections |-> Append(st.sections, [degree |-> degree, pole |-> st.i])]

\* the loop without the test i + 1 < poles.len() of line 89
CascadeStepPairsLast(ps, dt, st) ==
  IF IsRealPole(ps[st.i + 1])
  THEN AddSection(st, FirstOrderSection(ps[st.i + 1][1], dt), 1)
  ELSE AddSection(st, SecondOrderSection(ps[st.i + 1][1], ps[st.i + 1][2], dt), 2)

\* one iteration of the while loop; st = [i, b_total, a_total, sections]
CascadeStep(ps, dt, st) ==
  IF IsRealPole(ps[st.i + 1])
  THEN AddSection(st, FirstOrderSection(ps[st.i + 1][1], dt), 1)
  ELSE IF st.i + 1 < Len(ps)
  THEN AddSection(st, SecondOrderSection(ps[st.i + 1][1], ps[st.i + 1][2], dt), 2)
  ELSE [st EXCEPT !.i = st.i + 1]

CascadeInit ==
  [i |-> 0, b_total |-> <<F(1)>>, a_total |-> <<F(1)>>, sections |-> <<>>]

RECURSIVE CascadeLoop(_, _, _)
CascadeLoop(ps, dt, st) ==
  IF st.i < Len(ps) THEN CascadeLoop(ps, dt, CascadeStep(ps, dt, st)) ELSE st

DivideAll(c, a0) == [n \in 1..Len(c) |-> Div(c[n], a0)]
ScaleAll(c, gain) == [n \in 1..Len(c) |-> Mul(c[n], gain)]

\* mutant: the gain inverted, sum(b) / sum(a)
GainInverted(b1, a1) == Div(SumSeq(b1), SumSeq(a1))

Gain(b1, a1) == Div(SumSeq(a1), SumSeq(b1))

ScaleNumerator(b1, a1) == [b |-> ScaleAll(b1, Gain(b1, a1)), a |-> a1]

\* lines 107-114: divide by a[0], then scale b by sum(a) / sum(b)
Normalize(bt, at) == ScaleNumerator(DivideAll(bt, at[1]), DivideAll(at, at[1]))

Finish(st) == Normalize(st.b_total, st.a_total)

bilinear_transform_cascade(ps, fs) == Finish(CascadeLoop(ps, Div(F(1), fs), CascadeInit))

\* the analog cutoff 2 * PI * fc without the pre-warping of the bilinear map
PrewarpOmitted(fc, fs) == Mul(Mul(F(2), PI), fc)

Prewarp(fc, fs) == Mul(Mul(F(2), fs), Tan(Div(Mul(PI, fc), fs)))

ScaleBy(ps, wc) == [k \in 1..Len(ps) |-> <<Mul(ps[k][1], wc), Mul(ps[k][2], wc)>>]

ScaledPoles(n, fc, fs) == ScaleBy(butterworth_analog_poles(n), Prewarp(fc, fs))

design_butterworth_digital_lowpass(n, fc, fs) ==
  bilinear_transform_cascade(ScaledPoles(n, fc, fs), fs)

\* mutant: the cutoff not mirrored
CutoffKept(fc, fs) == fc

MirroredCutoff(fc, fs) == Sub(Div(fs, F(2)), fc)

\* mutant: the even indices negated instead of the odd ones
InvertEven(c) == [n \in 1..Len(c) |-> IF (n - 1) % 2 = 0 THEN Neg(c[n]) ELSE c[n]]

\* mutant: no coefficient negated
InvertNone(c) == c

\* index k (from 0) of the clone: negated when k % 2 == 1
InvertOdd(c) == [n \in 1..Len(c) |-> IF (n - 1) % 2 = 1 THEN Neg(c[n]) ELSE c[n]]

InvertBoth(f) == [b |-> InvertOdd(f.b), a |-> InvertOdd(f.a)]

design_butterworth_digital_highpass(n, fc, fs) ==
  InvertBoth(design_butterworth_digital_lowpass(n, MirroredCutoff(fc, fs), fs))

(* ------------------------- filter_response.rs ------------------------- *)
ExpTerm(x) == <<Cos(x), Sin(x)>>

\* the sum of the c[k] * e^(-j omega k) from index k (from 0) on
RECURSIVE PolySum(_, _, _)
PolySum(c, omega, k) ==
  IF k >= Len(c) THEN <<0, 0>>
  ELSE CAdd(CScale(c[k + 1], ExpTerm(Mul(Neg(F(k)), omega))), PolySum(c, omega, k + 1))

\* H(e^(j omega)) = B(e^(j omega)) / A(e^(j omega))
frequency_response_at_omega(f, omega) == CDiv(PolySum(f.b, omega, 0), PolySum(f.a, omega, 0))

FreqAt(k, fs, n) == Div(Mul(F(k), fs), F(n))
OmegaAt(freq, fs) == Div(Mul(Mul(F(2), PI), freq), fs)

ResponseAt(f, fs, n, k) == frequency_response_at_omega(f, OmegaAt(FreqAt(k, fs, n), fs))

\* FilterResponse::compute: one sample for each k = 0 ..= n / 2
ComputeFrequencies(fs, n) == [m \in 1..(n \div 2 + 1) |-> FreqAt(m - 1, fs, n)]
ComputeComplex(f, fs, n) == [m \in 1..(n \div 2 + 1) |-> ResponseAt(f, fs, n, m - 1)]
NormAll(hs) == [m \in 1..Len(hs) |-> Norm(hs[m])]
ArgAll(hs) == [m \in 1..Len(hs) |-> Arg(hs[m])]

(* ---------------------------- test_cutoff.rs --------------------------- *)
\* k as f64 * v / n as f64 for integers k >= 0 and n > 0: the product is
\* formed exactly and the quotient rounded once
ScaleIndex(k, v, n) ==
  IF ~Finite(v) THEN NonFinite
  ELSE Sign(v) * (k * (Abs(v) \div n) + RoundDiv(k * (Abs(v) % n), n))

test_num_points == 10000
test_fine_points == 1000

target_magnitude == Div(F(1), Sqrt(F(2)))

nyquist(fs) == Div(fs, F(2))

\* k in 0..n, the range of the loops at lines 46 and 62
InRangeInclusive(k, n) == k <= n
InRange(k, n) == k < n

\* line 47
CoarseFreq(k, fs, n) == ScaleIndex(k, nyquist(fs), n)

\* line 60
search_range(fs, n) == IF n = 0 THEN NonFinite ELSE DivInt(nyquist(fs), n)

\* line 63
FineFreq(best, k, fs, n, m) ==
  Add(Sub(best, Div(search_range(fs, n), F(2))),
      IF m = 0 THEN NonFinite ELSE ScaleIndex(k, search_range(fs, n), m))

\* line 64
OutOfBand(freq, fs) == Lt(freq, 0) \/ Lt(nyquist(fs), freq)

\* lines 48-52 and 67-71
ErrorAt(f, freq, fs) ==
  FAbs(Sub(Norm(frequency_response_at_omega(f, OmegaAt(freq, fs))), target_magnitude))

\* the test of lines 53 and 72 with <= in place of <
ErrorImprovesOrEqual(error, best) == Finite(error) /\ (best = NonFinite \/ error <= best)

\* error < best_error, where best_error starts as f64::INFINITY (here
\* NonFinite until the first assignment) and a NaN error compares false
ErrorImproves(error, best) == Finite(error) /\ (best = NonFinite \/ error < best)

(* --------------------------- state machine ---------------------------- *)
\* order, cutoff, sample_rate, filter_type: the arguments of
\* ButterworthFilter::lowpass / ::highpass; poles, t, i, b_total, a_total:
\* the locals of bilinear_transform_cascade; sections: the sections convolved
\* so far; lp: the pair the low-pass design returned; filter: the value
\* returned to the caller.  num_points, frequencies, magnitude, phase,
\* complex_response: the argument and the fields of FilterResponse.
\* fine_points, best_freq, best_error: the locals of find_3db_cutoff (its
\* num_points and its loop index are num_points and i); evaluations,
\* last_freq: the number of frequencies it has evaluated so far and the
\* last of them; coarse_freq: the value of best_freq
\* at the end of the coarse scan.
\* spectrum, shift, result: the arguments and the result of circshift;
\* original: the spectrum of the first of two calls.
\* min_freq, max_freq, exclude_dc, peak_magnitude, peak_index,
\* peak_frequency: the arguments and the locals of
\* estimate_frequency_offset (its slices are frequencies and magnitude).
\* calls: the stack frames of design-and-evaluate calls running side by
\* side, each with the arguments, the locals and the results above.
\* num_peaks, min_distance, threshold, peaks, filtered_peaks: the arguments
\* and the locals of find_multiple_peaks; refined_freq: the value returned
\* by refined_frequency_estimate.
\* content, f_d, f_b: the lines read by read_q1_results and two of the
\* values it returns (the third is sample_rate).
\* a_section, b_section: the vectors convolved into a_total and b_total.
VARIABLES order, cutoff, sample_rate, filter_type, pc,
          poles, t, i, b_total, a_total, sections, lp, filter,
          num_points, frequencies, magnitude, phase, complex_response,
          fine_points, best_freq, best_error, evaluations, last_freq,
          coarse_freq,
          spectrum, shift, result, original,
          min_freq, max_freq, exclude_dc, peak_magnitude, peak_index,
          peak_frequency, calls,
          num_peaks, min_distance, threshold, peaks, filtered_peaks,
          refined_freq,
          content, f_d, f_b,
          a_section, b_section

vars == <<order, cutoff, sample_rate, filter_type, pc,
          poles, t, i, b_total, a_total, sections, lp, filter,
          num_points, frequencies, magnitude, phase, complex_response,
          fine_points, best_freq, best_error, evaluations, last_freq,
          coarse_freq,
          spectrum, shift, result, original,
          min_freq, max_freq, exclude_dc, peak_magnitude, peak_index,
          peak_frequency, calls,
          num_peaks, min_distance, threshold, peaks, filtered_peaks,
          refined_freq,
          content, f_d, f_b,
          a_section, b_section>>

inputs == <<order, cutoff, sample_rate, filter_type>>
locals == <<poles, t, i, b_total, a_total, sections>>
response == <<num_points, frequencies, magnitude, phase, complex_response>>
search == <<fine_points, best_freq, best_error, evaluations, last_freq,
          coarse_freq>>
shifter == <<spectrum, shift, result, original>>
estimator == <<min_freq, max_freq, exclude_dc, peak_magnitude, peak_index,
               peak_frequency>>
finder == <<num_peaks, min_distance, threshold, peaks, filtered_peaks,
            refined_freq>>
reader == <<content, f_d, f_b>>
convolver == <<a_section, b_section>>
more == <<finder, reader, convolver>>
rest == <<search, shifter, estimator, calls, more>>

Orders == 0..MaxOrder
Cutoffs == {F(c) : c \in -1..MaxCutoff}
SampleRates == {F(8), F(10), 0, F(-8)}
NumPoints == 0..MaxPoints
NoCoefficients == [b |-> <<>>, a |-> <<>>]

\* nothing designed or evaluated yet
NoDesign ==
  /\ poles = <<>>
  /\ t = 0
  /\ i = 0
  /\ b_total = <<>>
  /\ a_total = <<>>
  /\ sections = <<>>
  /\ lp = NoCoefficients
  /\ filter = NoCoefficients

NoResponse ==
  /\ num_points = 0
  /\ frequencies = <<>>
  /\ magnitude = <<>>
  /\ phase = <<>>
  /\ complex_response = <<>>

NoSearch ==
  /\ fine_points = 0
  /\ best_freq = 0
  /\ best_error = NonFinite
  /\ evaluations = 0
  /\ last_freq = 0
  /\ coarse_freq = 0

NoShift ==
  /\ spectrum = <<>>
  /\ shift = 0
  /\ result = <<>>
  /\ original = <<>>

NoCalls == calls = <<>>

NoPeaks ==
  /\ num_peaks = 0
  /\ min_distance = 0
  /\ threshold = 0
  /\ peaks = <<>>
  /\ filtered_peaks = <<>>
  /\ refined_freq = 0

NoRead ==
  /\ content = <<>>
  /\ f_d = 0
  /\ f_b = 0

NoSections ==
  /\ a_section = <<>>
  /\ b_section = <<>>

NoMore == NoPeaks /\ NoRead /\ NoSections

NoEstimate ==
  /\ min_freq = 0
  /\ max_freq = 0
  /\ exclude_dc = FALSE
  /\ peak_magnitude = 0
  /\ peak_index = 0
  /\ peak_frequency = 0

Init ==
  /\ order \in Orders
  /\ cutoff \in Cutoffs
  /\ sample_rate \in SampleRates
  /\ filter_type \in {"Lowpass", "Highpass"}
  /\ pc = "call"
  /\ NoDesign
  /\ NoResponse
  /\ NoSearch
  /\ NoCalls
  /\ NoMore
  /\ NoShift
  /\ NoEstimate

\* lines 31-36 and 76-79, entered with the cutoff c
EnterLowpass(c) ==
  /\ poles' = ScaledPoles(order, c, sample_rate)
  /\ t' = Div(F(1), sample_rate)
  /\ i' = CascadeInit.i
  /\ b_total' = CascadeInit.b_total
  /\ a_total' = CascadeInit.a_total
  /\ sections' = CascadeInit.sections
  /\ pc' = "loop"
  /\ UNCHANGED <<inputs, lp, filter, response, rest>>

\* ButterworthFilter::lowpass calls design_butterworth_digital_lowpass
DesignLowpass ==
  /\ pc = "call"
  /\ filter_type = "Lowpass"
  /\ EnterLowpass(cutoff)

\* ButterworthFilter::highpass: the low-pass design at the mirrored cutoff
DesignHighpass ==
  /\ pc = "call"
  /\ filter_type = "Highpass"
  /\ EnterLowpass(MirroredCutoff(cutoff, sample_rate))

LoopState == [i |-> i, b_total |-> b_total, a_total |-> a_total, sections |-> sections]

Assign(st) ==
  /\ i' = st.i
  /\ b_total' = st.b_total
  /\ a_total' = st.a_total
  /\ sections' = st.sections
  /\ UNCHANGED <<inputs, pc, poles, t, lp, filter, response, rest>>

LoopBody == Assign(CascadeStep(poles, t, LoopState))

\* lines 82-87
RealPoleSection ==
  /\ pc = "loop"
  /\ i < Len(poles)
  /\ IsRealPole(poles[i + 1])
  /\ LoopBody

\* lines 89-101
ConjugatePairSection ==
  /\ pc = "loop"
  /\ i < Len(poles)
  /\ ~IsRealPole(poles[i + 1])
  /\ i + 1 < Len(poles)
  /\ LoopBody

\* lines 102-104
SkipLastPole ==
  /\ pc = "loop"
  /\ i < Len(poles)
  /\ ~IsRealPole(poles[i + 1])
  /\ ~(i + 1 < Len(poles))
  /\ LoopBody

\* lines 107-114: the loop is over, the pair (b_total, a_total) is returned
NormalizeGain ==
  /\ pc = "loop"
  /\ ~(i < Len(poles))
  /\ lp' = Normalize(b_total, a_total)
  /\ pc' = "designed"
  /\ UNCHANGED <<inputs, locals, filter, response, rest>>

\* lines 21-22
ReturnLowpass ==
  /\ pc = "designed"
  /\ filter_type = "Lowpass"
  /\ filter' = lp
  /\ pc' = "done"
  /\ UNCHANGED <<inputs, locals, lp, response, rest>>

\* lines 50-65 and 26-27
SpectralInversion ==
  /\ pc = "designed"
  /\ filter_type = "Highpass"
  /\ filter' = InvertBoth(lp)
  /\ pc' = "done"
  /\ UNCHANGED <<inputs, locals, lp, response, rest>>

SetResponse(n, hs) ==
  /\ num_points' = n
  /\ frequencies' = ComputeFrequencies(sample_rate, n)
  /\ complex_response' = hs
  /\ magnitude' = NormAll(hs)
  /\ phase' = ArgAll(hs)

\* FilterResponse::compute(&filter, sample_rate, n), filter_response.rs 15-41
ComputeResponse ==
  /\ pc = "done"
  /\ \E n \in NumPoints : SetResponse(n, ComputeComplex(filter, sample_rate, n))
  /\ pc' = "evaluated"
  /\ UNCHANGED <<inputs, locals, lp, filter, rest>>

\* find_3db_cutoff(&filter, sample_rate, _), test_cutoff.rs 37-44, with the
\* point counts n (num_points) and m (fine_points)
FindCutoff(n, m) ==
  /\ pc = "done"
  /\ num_points' = n
  /\ fine_points' = m
  /\ best_freq' = 0
  /\ best_error' = NonFinite
  /\ i' = 0
  /\ evaluations' = 0
  /\ last_freq' = 0
  /\ pc' = "coarse"
  /\ UNCHANGED <<inputs, poles, t, b_total, a_total, sections, lp, filter,
                 frequencies, magnitude, phase, complex_response,
                 coarse_freq, shifter, estimator, calls, more>>

\* lines 48-56 and 67-75: the response at freq is compared with the best
Keep(freq, error) ==
  IF ErrorImproves(error, best_error)
  THEN best_error' = error /\ best_freq' = freq
  ELSE UNCHANGED <<best_error, best_freq>>

Evaluate(freq) ==
  /\ evaluations' = evaluations + 1
  /\ last_freq' = freq
  /\ Keep(freq, ErrorAt(filter, freq, sample_rate))

Advance ==
  /\ i' = i + 1
  /\ UNCHANGED <<inputs, pc, poles, t, b_total, a_total, sections, lp, filter,
                 response, fine_points, coarse_freq, shifter, estimator, calls, more>>

\* lines 46-57, one iteration
CoarseStep ==
  /\ pc = "coarse"
  /\ InRange(i, num_points)
  /\ Evaluate(CoarseFreq(i, sample_rate, num_points))
  /\ Advance

\* lines 59-61: the coarse loop is over
CoarseDone ==
  /\ pc = "coarse"
  /\ ~InRange(i, num_points)
  /\ coarse_freq' = best_freq
  /\ i' = 0
  /\ pc' = "fine"
  /\ UNCHANGED <<inputs, poles, t, b_total, a_total, sections, lp, filter,
                 response, fine_points, best_freq, best_error, evaluations,
                 last_freq,
                 shifter, estimator, calls, more>>

\* lines 64-66: a frequency outside [0, nyquist] is skipped
EvaluateInBand(freq) ==
  IF OutOfBand(freq, sample_rate)
  THEN UNCHANGED <<best_error, best_freq, evaluations, last_freq>>
  ELSE Evaluate(freq)

\* lines 62-76, one iteration
FineStep ==
  /\ pc = "fine"
  /\ InRange(i, fine_points)
  /\ EvaluateInBand(FineFreq(best_freq, i, sample_rate, num_points, fine_points))
  /\ Advance

\* line 78: best_freq is returned
FineDone ==
  /\ pc = "fine"
  /\ ~InRange(i, fine_points)
  /\ pc' = "found"
  /\ UNCHANGED <<inputs, locals, lp, filter, response, rest>>

Next ==
  \/ DesignLowpass
  \/ DesignHighpass
  \/ RealPoleSection
  \/ ConjugatePairSection
  \/ SkipLastPole
  \/ NormalizeGain
  \/ ReturnLowpass
  \/ SpectralInversion
  \/ ComputeResponse
  \/ FindCutoff(CoarsePoints, FinePoints)
  \/ CoarseStep
  \/ CoarseDone
  \/ FineStep
  \/ FineDone

Spec == Init /\ [][Next]_vars

\* test_cutoff.rs, main, lines 10-12 and 25-28: the low-pass filter of order
\* 8 with cutoff 4000 Hz at 22050 Hz, searched with the program's own point
\* counts.  The frequencies of this run are in kHz (22050 Hz is 22.05): the
\* design and the search use them only in the ratios freq / sample_rate and
\* in the products of a pole with 1 / sample_rate.
test_sample_rate == 22050000
designed_cutoff_lp == 4000000
test_order == 8

TestCutoffInit ==
  /\ order = test_order
  /\ cutoff = designed_cutoff_lp
  /\ sample_rate = test_sample_rate
  /\ filter_type = "Lowpass"
  /\ pc = "call"
  /\ NoDesign
  /\ NoResponse
  /\ NoSearch
  /\ NoCalls
  /\ NoMore
  /\ NoShift
  /\ NoEstimate

TestCutoffNext ==
  \/ DesignLowpass
  \/ ConjugatePairSection
  \/ NormalizeGain
  \/ ReturnLowpass
  \/ FindCutoff(test_num_points, test_fine_points)
  \/ CoarseStep
  \/ CoarseDone
  \/ FineStep
  \/ FineDone

TestCutoffSpec == TestCutoffInit /\ [][TestCutoffNext]_vars

\* butterworth_analog_poles(order) on its own, butterworth_filter.rs 68-73:
\* the range 0..n is mapped pole by pole and collected
PolesInit ==
  /\ order \in 0..MaxPoleOrder
  /\ cutoff = 0
  /\ sample_rate = 0
  /\ filter_type = "Lowpass"
  /\ pc = "poles"
  /\ NoDesign
  /\ NoResponse
  /\ NoSearch
  /\ NoCalls
  /\ NoMore
  /\ NoShift
  /\ NoEstimate

PushPole ==
  /\ pc = "poles"
  /\ i < order
  /\ poles' = Append(poles, AnalogPole(order, i))
  /\ i' = i + 1
  /\ UNCHANGED <<inputs, pc, t, b_total, a_total, sections, lp, filter,
                 response, rest>>

CollectPoles ==
  /\ pc = "poles"
  /\ ~(i < order)
  /\ pc' = "collected"
  /\ UNCHANGED <<inputs, locals, lp, filter, response, rest>>

PolesNext ==
  \/ PushPole
  \/ CollectPoles

PolesSpec == PolesInit /\ [][PolesNext]_vars

(* ------------------- designs running side by side -------------------- *)
\* the stack frame of one call of ButterworthFilter::lowpass / ::highpass
\* followed by FilterResponse::compute: its arguments, the locals of
\* bilinear_transform_cascade (loop), and what it returns
Frame(n, fc, fs, ty) ==
  [order |-> n, cutoff |-> fc, sample_rate |-> fs, filter_type |-> ty,
   pc |-> "call", poles |-> <<>>, t |-> 0, loop |-> CascadeInit,
   lp |-> NoCoefficients, filter |-> NoCoefficients, magnitude |-> <<>>]

ParallelFrames ==
  {Frame(n, F(fc), F(8), ty) :
     n \in 1..MaxParallelOrder, fc \in 1..2, ty \in {"Lowpass", "Highpass"}}

CallIds == 1..2

ParallelInit ==
  /\ calls \in [CallIds -> ParallelFrames]
  /\ pc = "parallel"
  /\ order = 0
  /\ cutoff = 0
  /\ sample_rate = 0
  /\ filter_type = "Lowpass"
  /\ NoDesign
  /\ NoResponse
  /\ NoSearch
  /\ NoShift
  /\ NoEstimate
  /\ NoMore

\* the locals b_total and a_total as one static shared by every call
WritesShared(cs, c, fr) ==
  [k \in DOMAIN cs |-> IF k = c THEN fr ELSE [cs[k] EXCEPT !.loop = fr.loop]]

\* a call writes its own frame only: every variable of the design and of the
\* evaluation is a local or an argument
Writes(cs, c, fr) == [cs EXCEPT ![c] = fr]

Update(c, fr) ==
  /\ calls' = Writes(calls, c, fr)
  /\ UNCHANGED <<inputs, pc, locals, lp, filter, response, search, shifter, estimator, more>>

FrameCutoff(fr) ==
  IF fr.filter_type = "Lowpass" THEN fr.cutoff
  ELSE MirroredCutoff(fr.cutoff, fr.sample_rate)

\* butterworth_filter.rs 20-28, 31-36 and 76-79
Entered(fr) ==
  [fr EXCEPT !.poles = ScaledPoles(fr.order, FrameCutoff(fr), fr.sample_rate),
             !.t = Div(F(1), fr.sample_rate),
             !.loop = CascadeInit,
             !.pc = "loop"]

CallDesign(c) ==
  /\ calls[c].pc = "call"
  /\ Update(c, Entered(calls[c]))

\* lines 81-105, one iteration
CallSection(c) ==
  /\ calls[c].pc = "loop"
  /\ calls[c].loop.i < Len(calls[c].poles)
  /\ Update(c, [calls[c] EXCEPT !.loop = CascadeStep(calls[c].poles, calls[c].t, calls[c].loop)])

\* lines 107-114
CallNormalize(c) ==
  /\ calls[c].pc = "loop"
  /\ ~(calls[c].loop.i < Len(calls[c].poles))
  /\ Update(c, [calls[c] EXCEPT !.lp = Finish(calls[c].loop), !.pc = "designed"])

\* lines 21-22, or 50-65 and 26-27
Returns(fr) == IF fr.filter_type = "Lowpass" THEN fr.lp ELSE InvertBoth(fr.lp)

CallReturn(c) ==
  /\ calls[c].pc = "designed"
  /\ Update(c, [calls[c] EXCEPT !.filter = Returns(calls[c]), !.pc = "done"])

\* FilterResponse::compute(&filter, sample_rate, MaxPoints).magnitude
FrameMagnitude(f, fs) == NormAll(ComputeComplex(f, fs, MaxPoints))

CallCompute(c) ==
  /\ calls[c].pc = "done"
  /\ Update(c, [calls[c] EXCEPT
                  !.magnitude = FrameMagnitude(calls[c].filter, calls[c].sample_rate),
                  !.pc = "evaluated"])

ParallelNext ==
  \E c \in CallIds :
    \/ CallDesign(c)
    \/ CallSection(c)
    \/ CallNormalize(c)
    \/ CallReturn(c)
    \/ CallCompute(c)

ParallelSpec == ParallelInit /\ [][ParallelNext]_vars

(* ---------------------- Q1: fft_processor.rs -------------------------- *)
\* isize::rem_euclid for n > 0: the least non-negative remainder
rem_euclid(a, n) == IF a >= 0 THEN a % n ELSE (n - ((-a) % n)) % n

Zero == <<0, 0>>
Samples == {Zero, <<F(1), 0>>, <<F(-1), F(2)>>}

RECURSIVE SeqsOfLen(_, _)
SeqsOfLen(S, n) ==
  IF n = 0 THEN {<<>>}
  ELSE {Append(q, x) : q \in SeqsOfLen(S, n - 1), x \in S}

Spectra == UNION {SeqsOfLen(Samples, n) : n \in 0..MaxLen}

ShiftInit ==
  /\ spectrum \in Spectra
  /\ shift \in -MaxShift..MaxShift
  /\ result = <<>>
  /\ original = <<>>
  /\ pc = "shift"
  /\ order = 0
  /\ cutoff = 0
  /\ sample_rate = 0
  /\ filter_type = "Lowpass"
  /\ NoDesign
  /\ NoResponse
  /\ NoSearch
  /\ NoCalls
  /\ NoMore
  /\ NoEstimate

\* circshift(&spectrum, shift), lines 135-138
EnterCircshift ==
  /\ pc = "shift"
  /\ Len(spectrum) > 0
  /\ result' = [k \in 1..Len(spectrum) |-> Zero]
  /\ i' = 0
  /\ pc' = "rotate"
  /\ UNCHANGED <<inputs, poles, t, b_total, a_total, sections, lp, filter,
                 response, search, estimator, spectrum, shift, original, calls, more>>

\* line 136 on an empty slice: rem_euclid(0) panics
EmptyShiftPanics ==
  /\ pc = "shift"
  /\ Len(spectrum) = 0
  /\ pc' = "panicked"
  /\ UNCHANGED <<inputs, locals, lp, filter, response, rest>>

\* the rotation in the other direction
TargetBackwards(k, sh, n) == ((k + n - rem_euclid(sh, n)) % n) + 1

\* the index (i + shift) % n of line 140, from 1
Target(k, sh, n) == ((k + rem_euclid(sh, n)) % n) + 1

\* lines 139-141, one iteration
RotateStep ==
  /\ pc = "rotate"
  /\ i < Len(spectrum)
  /\ result' = [result EXCEPT ![Target(i, shift, Len(spectrum))] = spectrum[i + 1]]
  /\ i' = i + 1
  /\ UNCHANGED <<inputs, pc, poles, t, b_total, a_total, sections, lp, filter,
                 response, search, estimator, spectrum, shift, original, calls, more>>

\* line 142
RotateDone ==
  /\ pc = "rotate"
  /\ ~(i < Len(spectrum))
  /\ pc' = "shifted"
  /\ UNCHANGED <<inputs, locals, lp, filter, response, rest>>

\* circshift(&circshift(x, s), -s): the second call, on the result of the
\* first
ShiftBack ==
  /\ pc = "shifted"
  /\ original = <<>>
  /\ original' = spectrum
  /\ spectrum' = result
  /\ shift' = -shift
  /\ result' = <<>>
  /\ pc' = "shift"
  /\ UNCHANGED <<inputs, locals, lp, filter, response, search, estimator, calls, more>>

ShiftNext ==
  \/ EnterCircshift
  \/ EmptyShiftPanics
  \/ RotateStep
  \/ RotateDone
  \/ ShiftBack

ShiftSpec == ShiftInit /\ [][ShiftNext]_vars

(* -------------------- Q1: frequency_estimator.rs ---------------------- *)
Le(a, b) == Finite(a) /\ Finite(b) /\ a <= b

\* the frequency axis of FftResult::compute with a bin width of 1
Axis(n) == [k \in 1..n |-> F(k - 1)]

Magnitudes == {0, F(1), F(2)}

PeakInit ==
  /\ \E n \in 0..MaxLen :
       /\ frequencies = Axis(n)
       /\ magnitude \in SeqsOfLen(Magnitudes, n)
  /\ min_freq \in {F(f) : f \in 0..MaxLen}
  /\ max_freq \in {F(f) : f \in 0..MaxLen}
  /\ exclude_dc \in BOOLEAN
  /\ peak_magnitude = 0
  /\ peak_index = 0
  /\ peak_frequency = 0
  /\ pc = "estimate"
  /\ order = 0
  /\ cutoff = 0
  /\ sample_rate = 0
  /\ filter_type = "Lowpass"
  /\ NoDesign
  /\ num_points = 0
  /\ phase = <<>>
  /\ complex_response = <<>>
  /\ NoSearch
  /\ NoCalls
  /\ NoMore
  /\ NoShift

\* line 31
start_idx == IF exclude_dc THEN 1 ELSE 0

\* estimate_frequency_offset, lines 24-31 and the skip of line 37
EnterEstimate ==
  /\ pc = "estimate"
  /\ peak_magnitude' = 0
  /\ peak_index' = 0
  /\ peak_frequency' = 0
  /\ i' = start_idx
  /\ pc' = "scan"
  /\ UNCHANGED <<inputs, poles, t, b_total, a_total, sections, lp, filter,
                 response, search, shifter, min_freq, max_freq, exclude_dc, calls, more>>

\* the test of line 39 with >= in place of >
IsNewPeakOrEqual(freq, mag, lo, hi, peak) == Le(lo, freq) /\ Le(freq, hi) /\ Le(peak, mag)

\* line 39
IsNewPeak(freq, mag, lo, hi, peak) == Le(lo, freq) /\ Le(freq, hi) /\ Lt(peak, mag)

\* lines 39-43
KeepPeak(k, freq, mag) ==
  IF IsNewPeak(freq, mag, min_freq, max_freq, peak_magnitude)
  THEN peak_magnitude' = mag /\ peak_index' = k /\ peak_frequency' = freq
  ELSE UNCHANGED <<peak_magnitude, peak_index, peak_frequency>>

\* the length of frequencies.iter().zip(magnitude.iter())
Zipped == Min(Len(frequencies), Len(magnitude))

\* lines 33-44, one iteration
ScanBin ==
  /\ pc = "scan"
  /\ i < Zipped
  /\ KeepPeak(i, frequencies[i + 1], magnitude[i + 1])
  /\ i' = i + 1
  /\ UNCHANGED <<inputs, pc, poles, t, b_total, a_total, sections, lp, filter,
                 response, search, shifter, min_freq, max_freq, exclude_dc, calls, more>>

\* line 51
ReturnPeak ==
  /\ pc = "scan"
  /\ ~(i < Zipped)
  /\ pc' = "estimated"
  /\ UNCHANGED <<inputs, locals, lp, filter, response, rest>>

PeakNext ==
  \/ EnterEstimate
  \/ ScanBin
  \/ ReturnPeak

PeakSpec == PeakInit /\ [][PeakNext]_vars

(* ------------- bilinear_transform_cascade on any pole slice ----------- *)
\* a real pole and two complex poles
PoleSamples == {<<F(-1), 0>>, <<F(-1), F(1)>>, <<F(-2), F(-3)>>}

SliceInit ==
  /\ \E n \in 0..MaxLen : poles \in SeqsOfLen(PoleSamples, n)
  /\ sample_rate = F(8)
  /\ t = Div(F(1), F(8))
  /\ i = CascadeInit.i
  /\ b_total = CascadeInit.b_total
  /\ a_total = CascadeInit.a_total
  /\ sections = CascadeInit.sections
  /\ lp = NoCoefficients
  /\ filter = NoCoefficients
  /\ pc = "loop"
  /\ order = 0
  /\ cutoff = 0
  /\ filter_type = "Lowpass"
  /\ NoResponse
  /\ NoSearch
  /\ NoCalls
  /\ NoMore
  /\ NoShift
  /\ NoEstimate

SliceNext ==
  \/ RealPoleSection
  \/ ConjugatePairSection
  \/ SkipLastPole
  \/ NormalizeGain

SliceSpec == SliceInit /\ [][SliceNext]_vars

(* ------------------- butterworth_filter.rs: convolve ------------------ *)
Taps == {F(1), F(-2), Scale \div 3}
NonEmptySeqs == UNION {SeqsOfLen(Taps, n) : n \in 1..MaxLen}

\* convolve(&a_total, &a_section); b_section is one of the two numerator
\* sections of lines 85 and 90, convolved next
ConvolveInit ==
  /\ a_total \in NonEmptySeqs
  /\ a_section \in NonEmptySeqs
  /\ b_section \in {<<F(1), F(1)>>, <<F(1), F(2), F(1)>>}
  /\ result = <<>>
  /\ i = 0
  /\ pc = "convolve"
  /\ order = 0
  /\ cutoff = 0
  /\ sample_rate = 0
  /\ filter_type = "Lowpass"
  /\ poles = <<>>
  /\ t = 0
  /\ b_total = <<>>
  /\ sections = <<>>
  /\ lp = NoCoefficients
  /\ filter = NoCoefficients
  /\ NoResponse
  /\ NoSearch
  /\ NoCalls
  /\ NoPeaks
  /\ NoRead
  /\ spectrum = <<>>
  /\ shift = 0
  /\ original = <<>>
  /\ NoEstimate

\* line 118
EnterConvolve ==
  /\ pc = "convolve"
  /\ result' = [n \in 1..(Len(a_total) + Len(a_section) - 1) |-> 0]
  /\ i' = 0
  /\ pc' = "rows"
  /\ UNCHANGED <<inputs, poles, t, b_total, a_total, sections, lp, filter,
                 response, search, spectrum, shift, original, estimator,
                 calls, more>>

\* result[i + j] = a_val * b_val in place of +=
OverwriteRow(res, a_val, b, k) ==
  [n \in 1..Len(res) |->
     IF n > k /\ n <= k + Len(b) THEN Mul(a_val, b[n - k]) ELSE res[n]]

\* lines 120-122: the inner loop for the element a_val at index k (from 0)
AccumulateRow(res, a_val, b, k) ==
  [n \in 1..Len(res) |->
     IF n > k /\ n <= k + Len(b) THEN Add(res[n], Mul(a_val, b[n - k])) ELSE res[n]]

\* lines 119-123, one iteration of the outer loop
ConvolveRow ==
  /\ pc = "rows"
  /\ i < Len(a_total)
  /\ result' = AccumulateRow(result, a_total[i + 1], a_section, i)
  /\ i' = i + 1
  /\ UNCHANGED <<inputs, pc, poles, t, b_total, a_total, sections, lp, filter,
                 response, search, spectrum, shift, original, estimator,
                 calls, more>>

\* line 124
ReturnConvolved ==
  /\ pc = "rows"
  /\ ~(i < Len(a_total))
  /\ pc' = "convolved"
  /\ UNCHANGED <<inputs, locals, lp, filter, response, rest>>

ConvolveNext ==
  \/ EnterConvolve
  \/ ConvolveRow
  \/ ReturnConvolved

ConvolveSpec == ConvolveInit /\ [][ConvolveNext]_vars

(* --------------------- Q2 main.rs: read_q1_results -------------------- *)
\* the initial values of lines 133-135, in kHz
default_sample_rate == 22050000
default_f_d == 3225000
default_f_b == 4000000

\* a line of the file: the parameter its text names ("other" for any other
\* line) and what follows its first '=': nothing at all (no '='), no token,
\* a token that is no number, or a number
Line(label, kind, number) == [label |-> label, kind |-> kind, number |-> number]

Lines ==
  {Line(label, kind, 0) :
     label \in {"f_d", "f_s", "f_B", "other"}, kind \in {"none", "empty", "bad"}}
  \cup {Line(label, "number", F(8)) : label \in {"f_d", "f_s", "f_B", "other"}}

ReadInit ==
  /\ \E n \in 0..MaxLines : content \in SeqsOfLen(Lines, n)
  /\ sample_rate = 0
  /\ f_d = 0
  /\ f_b = 0
  /\ i = 0
  /\ pc = "read"
  /\ order = 0
  /\ cutoff = 0
  /\ filter_type = "Lowpass"
  /\ poles = <<>>
  /\ t = 0
  /\ b_total = <<>>
  /\ a_total = <<>>
  /\ sections = <<>>
  /\ lp = NoCoefficients
  /\ filter = NoCoefficients
  /\ NoResponse
  /\ NoSearch
  /\ NoCalls
  /\ NoPeaks
  /\ NoSections
  /\ NoShift
  /\ NoEstimate

\* lines 130-131: the file cannot be read, expect panics
ReadFails ==
  /\ pc = "read"
  /\ pc' = "panicked"
  /\ UNCHANGED <<inputs, locals, lp, filter, response, rest>>

\* lines 130-135: the file is read, the three values start as the defaults
ReadFile ==
  /\ pc = "read"
  /\ sample_rate' = default_sample_rate
  /\ f_d' = default_f_d
  /\ f_b' = default_f_b
  /\ i' = 0
  /\ pc' = "lines"
  /\ UNCHANGED <<order, cutoff, filter_type, poles, t, b_total, a_total,
                 sections, lp, filter, response, search, shifter, estimator,
                 calls, finder, content, convolver>>

\* num_str.parse().unwrap_or(default) behind the two if-let of lines
\* 140-141: without a token the variable keeps its value
Parsed(line, current, default) ==
  IF line.kind \in {"none", "empty"} THEN current
  ELSE IF line.kind = "number" THEN line.number
  ELSE default

\* lines 137-162, one iteration
ParseLine ==
  /\ pc = "lines"
  /\ i < Len(content)
  /\ f_d' = IF content[i + 1].label = "f_d"
            THEN Parsed(content[i + 1], f_d, default_f_d) ELSE f_d
  /\ sample_rate' = IF content[i + 1].label = "f_s"
                    THEN Parsed(content[i + 1], sample_rate, default_sample_rate)
                    ELSE sample_rate
  /\ f_b' = IF content[i + 1].label = "f_B"
            THEN Parsed(content[i + 1], f_b, default_f_b) ELSE f_b
  /\ i' = i + 1
  /\ UNCHANGED <<order, cutoff, filter_type, pc, poles, t, b_total, a_total,
                 sections, lp, filter, response, search, shifter, estimator,
                 calls, finder, content, convolver>>

\* line 164
ReturnResults ==
  /\ pc = "lines"
  /\ ~(i < Len(content))
  /\ pc' = "read_done"
  /\ UNCHANGED <<inputs, locals, lp, filter, response, rest>>

ReadNext ==
  \/ ReadFails
  \/ ReadFile
  \/ ParseLine
  \/ ReturnResults

ReadSpec == ReadInit /\ [][ReadNext]_vars

(* ------------- frequency_estimator.rs: find_multiple_peaks ------------ *)
PeakHeights == {F(1), F(2), F(3)}

FindPeaksInit ==
  /\ \E n \in 0..MaxBins :
       /\ frequencies = Axis(n)
       /\ magnitude \in SeqsOfLen(PeakHeights, n)
  /\ num_peaks \in 0..MaxPeaks
  /\ min_distance \in {1, 3}
  /\ threshold \in {0, F(1)}
  /\ peaks = <<>>
  /\ filtered_peaks = <<>>
  /\ refined_freq = 0
  /\ pc = "find"
  /\ order = 0
  /\ cutoff = 0
  /\ sample_rate = 0
  /\ filter_type = "Lowpass"
  /\ NoDesign
  /\ num_points = 0
  /\ phase = <<>>
  /\ complex_response = <<>>
  /\ NoSearch
  /\ NoCalls
  /\ NoShift
  /\ NoEstimate
  /\ NoRead
  /\ NoSections

\* the test of lines 100-102 with >= against the right neighbour; k is the
\* index i of the source, counted from 0
IsLocalMaximumOrPlateau(mag, k, level) ==
  /\ Lt(mag[k], mag[k + 1])
  /\ ~Lt(mag[k + 1], mag[k + 2])
  /\ Lt(level, mag[k + 1])

\* lines 100-102
IsLocalMaximum(mag, k, level) ==
  /\ Lt(mag[k], mag[k + 1])
  /\ Lt(mag[k + 2], mag[k + 1])
  /\ Lt(level, mag[k + 1])

\* lines 99-106: the peaks (frequencies[i], magnitude[i], i) of 1..n-1, in
\* the order of i
RECURSIVE LocalMaxima(_, _, _, _)
LocalMaxima(freqs, mag, k, level) ==
  IF k >= Len(mag) - 1 THEN <<>>
  ELSE (IF IsLocalMaximum(mag, k, level)
        THEN <<<<freqs[k + 1], mag[k + 1], k>>>> ELSE <<>>)
       \o LocalMaxima(freqs, mag, k + 1, level)

\* lines 96 and 99: n - 1 of an empty slice overflows usize
EmptyMagnitudePanics ==
  /\ pc = "find"
  /\ Len(magnitude) = 0
  /\ pc' = "panicked"
  /\ UNCHANGED <<inputs, locals, lp, filter, response, search, shifter,
                 estimator, calls, more>>

\* lines 95-106
CollectMaxima ==
  /\ pc = "find"
  /\ Len(magnitude) > 0
  /\ peaks' = LocalMaxima(frequencies, magnitude, 1, threshold)
  /\ pc' = "sort"
  /\ UNCHANGED <<inputs, locals, lp, filter, response, search, shifter,
                 estimator, calls, num_peaks, min_distance, threshold,
                 filtered_peaks, refined_freq, reader, convolver>>

\* the peak p put behind every peak of ps that is not smaller: sort_by is
\* stable
RECURSIVE InsertDescending(_, _)
InsertDescending(ps, p) ==
  IF ps = <<>> THEN <<p>>
  ELSE IF Lt(Head(ps)[2], p[2]) THEN <<p>> \o ps
  ELSE <<Head(ps)>> \o InsertDescending(Tail(ps), p)

\* line 109: peaks.sort_by(|a, b| b.1.partial_cmp(&a.1).unwrap())
RECURSIVE SortDescending(_, _)
SortDescending(ps, k) ==
  IF k = 0 THEN <<>>
  ELSE InsertDescending(SortDescending(ps, k - 1), ps[k])

SortPeaks ==
  /\ pc = "sort"
  /\ peaks' = SortDescending(peaks, Len(peaks))
  /\ i' = 0
  /\ pc' = "filter"
  /\ UNCHANGED <<inputs, poles, t, b_total, a_total, sections, lp, filter,
                 response, search, shifter, estimator, calls, num_peaks,
                 min_distance, threshold, filtered_peaks, refined_freq,
                 reader, convolver>>

\* lines 114-116
IsFarEnough(kept, peak, dist) ==
  \A q \in 1..Len(kept) : Abs(kept[q][3] - peak[3]) >= dist

\* lines 118-123: the peak is kept, and the loop left when enough are kept
KeepFar(peak) ==
  IF IsFarEnough(filtered_peaks, peak, min_distance)
  THEN /\ filtered_peaks' = Append(filtered_peaks, peak)
       /\ pc' = IF Len(filtered_peaks) + 1 >= num_peaks
                THEN "peaks_found" ELSE "filter"
  ELSE UNCHANGED <<filtered_peaks, pc>>

\* lines 113-124, one iteration
FilterPeak ==
  /\ pc = "filter"
  /\ i < Len(peaks)
  /\ KeepFar(peaks[i + 1])
  /\ i' = i + 1
  /\ UNCHANGED <<inputs, poles, t, b_total, a_total, sections, lp, filter,
                 response, search, shifter, estimator, calls, num_peaks,
                 min_distance, threshold, peaks, refined_freq, reader,
                 convolver>>

\* line 132, the loop exhausted
ReturnPeaks ==
  /\ pc = "filter"
  /\ ~(i < Len(peaks))
  /\ pc' = "peaks_found"
  /\ UNCHANGED <<inputs, locals, lp, filter, response, rest>>

FindPeaksNext ==
  \/ EmptyMagnitudePanics
  \/ CollectMaxima
  \/ SortPeaks
  \/ FilterPeak
  \/ ReturnPeaks

FindPeaksSpec == FindPeaksInit /\ [][FindPeaksNext]_vars

(* ---------- frequency_estimator.rs: refined_frequency_estimate -------- *)
\* a frequency axis of n bins of width df
SpacedAxis(n, df) == [k \in 1..n |-> (k - 1) * df]

BinWidths == {F(1), F(3), Scale \div 2}
BinHeights == {0, F(1), F(2), F(7), 2500000}

RefineInit ==
  /\ \E n \in 1..MaxLen :
       /\ \E df \in BinWidths : frequencies = SpacedAxis(n, df)
       /\ magnitude \in SeqsOfLen(BinHeights, n)
       /\ peak_index \in 0..(n - 1)
  /\ refined_freq = 0
  /\ pc = "refine"
  /\ order = 0
  /\ cutoff = 0
  /\ sample_rate = 0
  /\ filter_type = "Lowpass"
  /\ NoDesign
  /\ num_points = 0
  /\ phase = <<>>
  /\ complex_response = <<>>
  /\ NoSearch
  /\ NoCalls
  /\ NoShift
  /\ min_freq = 0
  /\ max_freq = 0
  /\ exclude_dc = FALSE
  /\ peak_magnitude = 0
  /\ peak_frequency = 0
  /\ num_peaks = 0
  /\ min_distance = 0
  /\ threshold = 0
  /\ peaks = <<>>
  /\ filtered_peaks = <<>>
  /\ NoRead
  /\ NoSections

\* line 60
AtEdge(k, mag) == k = 0 \/ k >= Len(mag) - 1

\* the vertex offset without the factor 0.5
ParabolaDeltaWhole(y1, y2, y3) ==
  Div(Sub(y1, y3), Add(Sub(y1, Mul(F(2), y2)), y3))

\* line 70: delta = 0.5 * (y1 - y3) / (y1 - 2.0 * y2 + y3)
ParabolaDelta(y1, y2, y3) ==
  Div(Mul(Scale \div 2, Sub(y1, y3)), Add(Sub(y1, Mul(F(2), y2)), y3))

\* lines 72-76
freq_resolution(freqs) ==
  IF Len(freqs) > 1 THEN Sub(freqs[2], freqs[1]) ELSE F(1)

\* lines 65-78
Interpolated(freqs, mag, k) ==
  Add(freqs[k + 1],
      Mul(ParabolaDelta(mag[k], mag[k + 1], mag[k + 2]), freq_resolution(freqs)))

Refined(fr) ==
  /\ refined_freq' = fr
  /\ pc' = "refined"
  /\ UNCHANGED <<inputs, locals, lp, filter, response, search, shifter,
                 estimator, calls, num_peaks, min_distance, threshold, peaks,
                 filtered_peaks, reader, convolver>>

\* lines 60-62
ReturnBin ==
  /\ pc = "refine"
  /\ AtEdge(peak_index, magnitude)
  /\ Refined(frequencies[peak_index + 1])

\* lines 64-84
Interpolate ==
  /\ pc = "refine"
  /\ ~AtEdge(peak_index, magnitude)
  /\ Refined(Interpolated(frequencies, magnitude, peak_index))

RefineNext ==
  \/ ReturnBin
  \/ Interpolate

RefineSpec == RefineInit /\ [][RefineNext]_vars


(* ------------------------------ claims -------------------------------- *)
\* order >= 1, sample rate > 0 and 0 < cutoff < sample rate / 2
ValidParams ==
  /\ order >= 1
  /\ sample_rate > 0
  /\ cutoff > 0
  /\ 2 * cutoff < sample_rate

\* the cutoff handed to the low-pass design
LowpassCutoff ==
  IF filter_type = "Lowpass" THEN cutoff ELSE Sub(Div(sample_rate, F(2)), cutoff)

Returned == pc \in {"done", "evaluated"}
Designed == pc \in {"designed", "done", "evaluated"}

\* x within one hundredth of y, relative to y
Tolerance == Scale \div 100
Near(x, y) == Lt(FAbs(Sub(x, y)), Add(Mul(Tolerance, FAbs(y)), 1))

RECURSIVE AlternatingSum(_, _)
AlternatingSum(s, sign) ==
  IF s = <<>> THEN 0 ELSE sign * s[1] + AlternatingSum(Tail(s), -sign)

SectionsOfDegree(d) == {k \in 1..Len(sections) : sections[k].degree = d}

\* C1: a filter returned for valid parameters has order + 1 numerator and
\* order + 1 denominator coefficients.
C1_CoefficientLengths ==
  (Returned /\ ValidParams) =>
    (Len(filter.b) = order + 1 /\ Len(filter.a) = order + 1)

\* C2: after the section loop, an odd order has given one first-order section
\* and (order - 1) / 2 second-order sections, an even order order / 2
\* second-order sections and no first-order section.
C2_SectionCounts ==
  (Designed /\ ValidParams) =>
    /\ Cardinality(SectionsOfDegree(1)) = order % 2
    /\ Cardinality(SectionsOfDegree(2)) = order \div 2

\* C9: no filter is returned for order 0 (here with a sample rate and a cutoff
\* that are themselves valid).
C9_OrderZeroRejected ==
  (order < 1 /\ sample_rate > 0 /\ cutoff > 0 /\ 2 * cutoff < sample_rate) => ~Returned

\* C10: with a sample rate <= 0 or a low-pass cutoff outside (0, fs / 2), the
\* design stops before any computation and no filter is produced.
C10_InvalidCutoffRejected ==
  (order >= 1 /\ ~(sample_rate > 0 /\ Lt(0, LowpassCutoff) /\ Lt(Mul(F(2), LowpassCutoff), sample_rate)))
    => (pc = "call" /\ filter = NoCoefficients)


\* the digital pole of a section lies strictly inside the unit circle: the
\* scaled analog pole p has a negative real part, the divisor 2 - pr * t is
\* not zero, and |z_pole| < 1 (first order) or a2 = |z1|^2 < 1 (second order)
PoleInsideUnitCircle(p, degree) ==
  /\ Lt(p[1], 0)
  /\ Finite(Sub(F(2), Mul(p[1], t)))
  /\ Sub(F(2), Mul(p[1], t)) # 0
  /\ IF degree = 1
     THEN Lt(FAbs(FirstOrderSection(p[1], t).a[2]), F(1))
     ELSE Lt(SecondOrderSection(p[1], p[2], t).a[3], F(1))

\* C3: for valid parameters every digital pole used in a cascaded section has
\* magnitude strictly less than 1.
C3_PolesInsideUnitCircle ==
  ValidParams =>
    \A k \in 1..Len(sections) :
      PoleInsideUnitCircle(poles[sections[k].pole + 1], sections[k].degree)

C3_Witness ==
  /\ ValidParams
  /\ Returned
  /\ SectionsOfDegree(1) # {}
  /\ SectionsOfDegree(2) # {}

\* C4: for valid parameters the low-pass design has unit response at z = 1:
\* after gain normalization sum(b) equals sum(a), within the rounding of the
\* arithmetic.
C4_UnitDcGain ==
  (Designed /\ ValidParams) => Near(SumSeq(lp.b), SumSeq(lp.a))

C4_Witness ==
  /\ ValidParams
  /\ Returned
  /\ filter_type = "Lowpass"
  /\ order >= 2
  /\ filter.b # b_total
  /\ SumSeq(filter.a) > 0

\* C5: every returned filter, low-pass or high-pass, has a[0] = 1.0.
C5_LeadingDenominatorIsOne == Returned => filter.a[1] = F(1)

C5_Witness ==
  /\ Returned
  /\ filter_type = "Highpass"
  /\ ValidParams
  /\ Len(filter.a) >= 3
  /\ filter.a[2] # lp.a[2]

\* h is l with every odd-indexed (from 0) coefficient negated, every
\* even-indexed coefficient unchanged, and the same lengths
OddNegated(h, l) ==
  /\ Len(h) = Len(l)
  /\ \A n \in 1..Len(h) : h[n] = (IF n % 2 = 0 THEN Neg(l[n]) ELSE l[n])

\* lowpass(order, fs / 2 - cutoff, fs), the low-pass filter L of which the
\* high-pass filter of cutoff `cutoff` is the mirror
MirroredLowpass ==
  design_butterworth_digital_lowpass(order, Sub(Div(sample_rate, F(2)), cutoff), sample_rate)

\* C6: the high-pass design returns the coefficients of the low-pass design at
\* the cutoff fs / 2 - cutoff with the odd-indexed coefficients of b and a
\* negated and the even-indexed ones unchanged.
C6_HighpassIsInvertedMirroredLowpass ==
  (Returned /\ filter_type = "Highpass") =>
    \A L \in {MirroredLowpass} : OddNegated(filter.b, L.b) /\ OddNegated(filter.a, L.a)

C6_Witness ==
  /\ Returned
  /\ filter_type = "Highpass"
  /\ ValidParams
  /\ order >= 2
  /\ filter.b[2] < 0
  /\ filter.b[3] > 0

\* C7 as stated: the low-pass designed at the mirrored cutoff, before the sign
\* inversion, has magnitude 1 at z = -1.
C7_LowpassUnitAtNyquist ==
  (Designed /\ filter_type = "Highpass" /\ ValidParams) =>
    Near(Abs(AlternatingSum(lp.b, 1)), Abs(AlternatingSum(lp.a, 1)))

\* C7 (amended): in the high-pass construction the low-pass designed at the
\* mirrored cutoff has magnitude 1 at DC (z = 1) before the sign inversion,
\* and it is the high-pass filter after the inversion that has magnitude 1
\* at Nyquist (z = -1).
C7_HighpassUnitAtNyquist ==
  (Returned /\ filter_type = "Highpass" /\ ValidParams) =>
    /\ Near(SumSeq(lp.b), SumSeq(lp.a))
    /\ Near(Abs(AlternatingSum(filter.b, 1)), Abs(AlternatingSum(filter.a, 1)))

C7_Witness ==
  /\ Returned
  /\ filter_type = "Highpass"
  /\ ValidParams
  /\ order >= 2
  /\ AlternatingSum(filter.a, 1) > 0
  /\ AlternatingSum(lp.b, 1) # AlternatingSum(filter.b, 1)


\* two magnitudes equal within one hundredth
Close(x, y) == Lt(FAbs(Sub(x, y)), Add(Tolerance, 1))

Magnitude(f, omega) == Norm(frequency_response_at_omega(f, omega))

\* |H| at every evaluated frequency, at 0 and at PI, against |L| at PI - omega
Reflected(H, L) ==
  /\ \A k \in 1..Len(magnitude) :
       Close(magnitude[k], Magnitude(L, Sub(PI, OmegaAt(frequencies[k], sample_rate))))
  /\ Close(Magnitude(H, 0), Magnitude(L, PI))
  /\ Close(Magnitude(H, PI), Magnitude(L, 0))

\* C8: for L = lowpass(order, fc, fs) and H = highpass(order, fs / 2 - fc, fs),
\* |H(e^(j omega))| = |L(e^(j (PI - omega)))| at every evaluated omega, and at
\* omega = 0 and omega = PI in particular.
C8_Reflection ==
  (pc = "evaluated" /\ filter_type = "Highpass" /\ ValidParams /\ num_points >= 1) =>
    \A L \in {MirroredLowpass} : Reflected(filter, L)

C8_Witness ==
  /\ pc = "evaluated"
  /\ filter_type = "Highpass"
  /\ ValidParams
  /\ order >= 2
  /\ Len(magnitude) >= 3
  /\ magnitude[1] < magnitude[2]
  /\ magnitude[2] < magnitude[3]
  /\ 2 * magnitude[1] < Scale
  /\ 2 * magnitude[3] > Scale


RECURSIVE StrictlyIncreasing(_)
StrictlyIncreasing(s) ==
  Len(s) < 2 \/ (Lt(s[1], s[2]) /\ StrictlyIncreasing(Tail(s)))

\* C11: for valid parameters and every num_points >= 1, even or odd, the
\* evaluation returns num_points / 2 + 1 samples whose frequencies are
\* strictly increasing, start at 0 and end at sample_rate / 2.
C11_FrequencyAxis ==
  (pc = "evaluated" /\ ValidParams /\ num_points >= 1) =>
    /\ Len(frequencies) = num_points \div 2 + 1
    /\ Len(magnitude) = num_points \div 2 + 1
    /\ Len(phase) = num_points \div 2 + 1
    /\ Len(complex_response) = num_points \div 2 + 1
    /\ StrictlyIncreasing(frequencies)
    /\ frequencies[1] = 0
    /\ frequencies[Len(frequencies)] = Div(sample_rate, F(2))


HalfStep == Div(search_range(sample_rate, num_points), F(2))

\* C14: every frequency evaluated during the fine scan lies within half a
\* coarse step (nyquist / num_points / 2) of the frequency the coarse scan
\* selected.
C14_FineScanWindow ==
  (pc \in {"fine", "found"} /\ evaluations > num_points /\ ValidParams) =>
    ~Lt(HalfStep, FAbs(Sub(last_freq, coarse_freq)))

\* point k (from 0) of n uniform points spanning the closed interval
\* [0, fs / 2]
ClosedGrid(k, fs, n) == ScaleIndex(k, nyquist(fs), n - 1)

GridError(k) == ErrorAt(filter, ClosedGrid(k, sample_rate, num_points), sample_rate)

\* f is the first point of the closed grid with the least error
FirstMinimizer(f) ==
  \E k \in 0..(num_points - 1) :
    /\ f = ClosedGrid(k, sample_rate, num_points)
    /\ \A m \in 0..(num_points - 1) :
         IF m < k THEN Lt(GridError(k), GridError(m)) ELSE ~Lt(GridError(m), GridError(k))

\* C15: after the coarse scan best_freq is the first minimizer of
\* | |H(f)| - 1/sqrt(2) | over num_points uniform points spanning the closed
\* interval [0, fs / 2]: the first frequency evaluated is 0 and the last one
\* fs / 2.
C15_CoarseGridIsClosed ==
  /\ (pc = "coarse" /\ i = 1 /\ ValidParams) => last_freq = 0
  /\ (pc = "fine" /\ i = 0 /\ ValidParams) =>
       /\ evaluations = num_points
       /\ last_freq = nyquist(sample_rate)
       /\ FirstMinimizer(best_freq)

\* C18 as stated: the search performs the same number of evaluations,
\* num_points + fine_points, for every filter and every position of the
\* coarse best estimate.
C18_FixedEvaluationCount ==
  (pc = "found" /\ sample_rate > 0) => evaluations = num_points + fine_points

\* the number of steps find_3db_cutoff has still to take: the iterations left
\* in the running loop, and the fine loop and the return after the coarse
\* loop
StepsLeft ==
  IF pc = "coarse" THEN (num_points - i) + fine_points + 2
  ELSE IF pc = "fine" THEN (fine_points - i) + 1
  ELSE 0

\* C18 (amended): the search always terminates (every step of it lowers the
\* number of steps left, which is never negative); it performs exactly
\* num_points coarse evaluations and at most fine_points fine evaluations (a
\* fine frequency outside [0, nyquist] is skipped, so the number of fine
\* evaluations depends on where the best estimate lies).
C18_BoundedEvaluationCount ==
  /\ [](StepsLeft >= 0)
  /\ [][(pc \in {"coarse", "fine"}) => (StepsLeft' < StepsLeft)]_vars
  /\ [](pc = "fine" /\ i = 0 => evaluations = num_points)
  /\ [](pc = "found" =>
         (evaluations >= num_points /\ evaluations <= num_points + fine_points))

C18_Witness ==
  /\ pc = "found"
  /\ sample_rate > 0
  /\ evaluations > num_points
  /\ evaluations < num_points + fine_points


TestCutoffRun ==
  /\ order = test_order
  /\ cutoff = designed_cutoff_lp
  /\ sample_rate = test_sample_rate
  /\ filter_type = "Lowpass"
  /\ num_points = test_num_points
  /\ fine_points = test_fine_points

WithinCoarseStep(freq) ==
  ~Lt(search_range(sample_rate, test_num_points), FAbs(Sub(freq, cutoff)))

\* C16: for the low-pass design of order 8 at fs = 22050 Hz with cutoff
\* 4000 Hz, find_3db_cutoff returns a frequency within fs / 2 / 10000 of the
\* cutoff; the best estimate is that close from the moment the coarse scan
\* has gone one step past the cutoff.
C16_ScenarioCutoffFound ==
  /\ (TestCutoffRun /\ pc = "coarse" /\ Lt(cutoff, last_freq) /\ ~WithinCoarseStep(last_freq))
       => WithinCoarseStep(best_freq)
  /\ (TestCutoffRun /\ pc \in {"fine", "found"}) => WithinCoarseStep(best_freq)

C16_Witness ==
  /\ pc = "found"
  /\ order = test_order
  /\ num_points = test_num_points
  /\ Len(filter.b) = test_order + 1
  /\ evaluations = test_num_points + test_fine_points
  /\ best_freq > 0
  /\ Lt(best_error, Tolerance)


\* C12: butterworth_analog_poles(order) returns exactly order poles, and for
\* every order from 1 to MaxPoleOrder each pole has a strictly negative real
\* part, its angle lying strictly between PI / 2 and 3 * PI / 2.
C12_PolesInLeftHalfPlane ==
  (pc = "collected") =>
    /\ Len(poles) = order
    /\ \A k \in 1..Len(poles) :
         /\ Lt(poles[k][1], 0)
         /\ Lt(HalfPi + 1, AnalogAngle(order, k - 1))
         /\ Lt(AnalogAngle(order, k - 1), 3 * HalfPi)

C12_Witness ==
  /\ pc = "collected"
  /\ order >= 16
  /\ Len(poles) = order
  /\ poles[1][2] > 0
  /\ poles[order][2] < 0

\* q is the complex conjugate of p, within the rounding of cos and sin
Conjugates(p, q) ==
  /\ Lt(FAbs(Sub(p[1], q[1])), 3 * Eps)
  /\ Lt(FAbs(Add(p[2], q[2])), 3 * Eps)

RealPoles == {k \in 1..Len(poles) : IsRealPole(poles[k])}

\* C13: for even order no pole is real and pole k is the conjugate of pole
\* order - 1 - k; for odd order exactly one pole is real, the one at index
\* (order - 1) / 2 (from 0).
C13_ConjugatePairsAndRealPole ==
  (pc = "collected" /\ order >= 1) =>
    IF order % 2 = 0
    THEN /\ RealPoles = {}
         /\ \A k \in 1..order : Conjugates(poles[k], poles[order + 1 - k])
    ELSE RealPoles = {(order - 1) \div 2 + 1}

C13_Witness ==
  /\ pc = "collected"
  /\ order % 2 = 1
  /\ order >= 3
  /\ poles[(order + 1) \div 2] = <<-Scale, 0>>
  /\ poles[1][2] > 0


\* a mod n for n > 0, in 0 .. n - 1
Modulo(a, n) == a - n * (a \div n)

\* C19: circshift is a cyclic rotation: for a non-empty input of length n
\* and any shift s, negative or with |s| >= n included, the result has
\* length n and result[(k + s) mod n] = spectrum[k] for every k, and
\* shifting the result back by -s gives the input again.
C19_CyclicRotation ==
  (pc = "shifted") =>
    /\ Len(result) = Len(spectrum)
    /\ \A k \in 0..(Len(spectrum) - 1) :
         result[Modulo(k + shift, Len(spectrum)) + 1] = spectrum[k + 1]
    /\ (original # <<>>) => (result = original)

C19_Witness ==
  /\ pc = "shifted"
  /\ original # <<>>
  /\ Len(spectrum) >= 3
  /\ shift > Len(spectrum)
  /\ spectrum # original
  /\ result = original


\* the bins (from 0) the estimator looks at whose frequency is in
\* [min_freq, max_freq]
InRangeBins ==
  {k \in start_idx..(Zipped - 1) :
     Le(min_freq, frequencies[k + 1]) /\ Le(frequencies[k + 1], max_freq)}

\* the lowest in-range bin whose magnitude is the largest of the in-range
\* bins
IsFirstMaximum(k) ==
  /\ k \in InRangeBins
  /\ \A m \in InRangeBins :
       IF m < k THEN magnitude[m + 1] < magnitude[k + 1]
       ELSE magnitude[m + 1] <= magnitude[k + 1]

\* C20: when some in-range bin has a positive magnitude, the estimator
\* returns (frequencies[k], magnitude[k], k) for the lowest bin k, counted
\* from 1 when exclude_dc is set and from 0 otherwise, whose frequency lies
\* in [min_freq, max_freq] and whose magnitude is the largest of those bins.
C20_FirstMaximumInRange ==
  (pc = "estimated" /\ \E k \in InRangeBins : magnitude[k + 1] > 0) =>
    /\ IsFirstMaximum(peak_index)
    /\ peak_frequency = frequencies[peak_index + 1]
    /\ peak_magnitude = magnitude[peak_index + 1]

C20_Witness ==
  /\ pc = "estimated"
  /\ exclude_dc
  /\ magnitude = <<F(2), F(1), F(1)>>
  /\ min_freq = 0
  /\ max_freq = F(2)
  /\ peak_index = 1
  /\ peak_frequency = F(1)
  /\ peak_magnitude = F(1)


\* what the call of frame fr returns when it runs alone
Alone(fr) ==
  IF fr.filter_type = "Lowpass"
  THEN design_butterworth_digital_lowpass(fr.order, fr.cutoff, fr.sample_rate)
  ELSE design_butterworth_digital_highpass(fr.order, fr.cutoff, fr.sample_rate)

SameAsAlone(fr, alone) ==
  /\ fr.pc \in {"done", "evaluated"} => fr.filter = alone
  /\ fr.pc = "evaluated" => fr.magnitude = FrameMagnitude(alone, fr.sample_rate)

\* C17: designs and evaluations share no mutable state: in every
\* interleaving of the steps of two calls, each call returns the filter and
\* the response it returns when run alone, and once a filter is returned no
\* step, the evaluation that reads it included, changes it.
C17_CallsDoNotInterfere ==
  /\ [](\A c \in DOMAIN calls : \A alone \in {Alone(calls[c])} : SameAsAlone(calls[c], alone))
  /\ [][\A c \in DOMAIN calls :
          (calls[c].pc \in {"done", "evaluated"}) => (calls'[c].filter = calls[c].filter)]_vars

C17_Witness ==
  /\ pc = "parallel"
  /\ calls[1].pc = "evaluated"
  /\ calls[2].pc = "loop"
  /\ calls[2].loop.i > 0
  /\ calls[1].order = 3
  /\ calls[2].order = 2
  /\ calls[1].filter_type # calls[2].filter_type


\* the indices, counted from 0, of the local maxima above the threshold
Maxima ==
  {k \in 1..(Len(magnitude) - 2) :
     /\ magnitude[k + 1] > magnitude[k]
     /\ magnitude[k + 1] > magnitude[k + 2]
     /\ magnitude[k + 1] > threshold}

Separated(S) == \A x \in S : \A y \in S : x # y => Abs(x - y) >= min_distance

\* C21: find_multiple_peaks returns at most num_peaks peaks for every
\* num_peaks >= 0 and every magnitude array of length >= 2, and exactly
\* num_peaks when at least num_peaks separated local maxima above the
\* threshold exist.
C21_AtMostAndExactlyNumPeaks ==
  (pc = "peaks_found" /\ Len(magnitude) >= 2) =>
    /\ Len(filtered_peaks) <= num_peaks
    /\ (\E S \in SUBSET Maxima : Separated(S) /\ Cardinality(S) >= num_peaks)
         => Len(filtered_peaks) = num_peaks

PeakIndices == {filtered_peaks[q][3] : q \in 1..Len(filtered_peaks)}

\* C24: every peak kept by find_multiple_peaks is a strict local maximum
\* above the threshold at an index in 1..n-2, with the frequency and the
\* magnitude of that index; two kept peaks are at least min_distance indices
\* apart; the list is in descending order of magnitude.
C24_PeaksAreSeparatedMaxima ==
  (pc \in {"filter", "peaks_found"}) =>
    /\ \A q \in 1..Len(filtered_peaks) :
         /\ filtered_peaks[q][3] \in Maxima
         /\ filtered_peaks[q][2] = magnitude[filtered_peaks[q][3] + 1]
         /\ filtered_peaks[q][1] = frequencies[filtered_peaks[q][3] + 1]
    /\ \A q \in 1..Len(filtered_peaks) : \A r \in 1..Len(filtered_peaks) :
         q # r => Abs(filtered_peaks[q][3] - filtered_peaks[r][3]) >= min_distance
    /\ \A q \in 1..(Len(filtered_peaks) - 1) :
         ~Lt(filtered_peaks[q][2], filtered_peaks[q + 1][2])

C24_Witness ==
  /\ pc = "peaks_found"
  /\ Len(filtered_peaks) = 2
  /\ Cardinality(Maxima) = 3
  /\ min_distance = 3
  /\ filtered_peaks[1][3] > filtered_peaks[2][3]
  /\ Lt(filtered_peaks[2][2], filtered_peaks[1][2])


\* magnitude[peak_index] is strictly greater than both neighbours
StrictPeak ==
  /\ peak_index >= 1
  /\ peak_index + 2 <= Len(magnitude)
  /\ magnitude[peak_index + 1] > magnitude[peak_index]
  /\ magnitude[peak_index + 1] > magnitude[peak_index + 2]

BinSpacing == frequencies[2] - frequencies[1]

\* C29: refined_frequency_estimate returns frequencies[peak_index] unchanged
\* when peak_index is 0 or the last index; otherwise, when
\* magnitude[peak_index] is strictly greater than both neighbours, the
\* returned frequency is finite and within half a bin spacing of
\* frequencies[peak_index].
C29_RefinedWithinHalfBin ==
  (pc = "refined") =>
    /\ (peak_index = 0 \/ peak_index = Len(magnitude) - 1)
         => refined_freq = frequencies[peak_index + 1]
    /\ StrictPeak =>
         /\ Finite(refined_freq)
         /\ 2 * Abs(refined_freq - frequencies[peak_index + 1]) <= BinSpacing

C29_Witness ==
  /\ pc = "refined"
  /\ StrictPeak
  /\ magnitude[peak_index] # magnitude[peak_index + 2]
  /\ 4 * Abs(refined_freq - frequencies[peak_index + 1]) >= BinSpacing
  /\ refined_freq < frequencies[peak_index + 1]


\* q is the complex conjugate of p, within the rounding of the arithmetic
ConjugatePoles(p, q) == Near(p[1], q[1]) /\ Near(Neg(p[2]), q[2])

\* the indices, counted from 0, of the poles that got a second-order
\* section, of the poles skipped by the advance of 2, and of the poles that
\* got a first-order section
PairedPoles == {sections[q].pole : q \in SectionsOfDegree(2)}
SkippedPoles == {k + 1 : k \in PairedPoles}
SinglePoles == {sections[q].pole : q \in SectionsOfDegree(1)}

\* C22: the pole consumed together with the complex pole at index i of a
\* second-order section, the one at index i + 1, is the complex conjugate of
\* pole i.
C22_NextPoleIsConjugate ==
  (Designed /\ ValidParams) =>
    \A k \in PairedPoles : ConjugatePoles(poles[k + 1], poles[k + 2])

RECURSIVE Binomial(_, _)
Binomial(d, k) ==
  IF k = 0 \/ k = d THEN 1 ELSE Binomial(d - 1, k - 1) + Binomial(d - 1, k)

BinomialRow(d) == [k \in 1..(d + 1) |-> F(Binomial(d, k - 1))]

Palindromic(c) == \A k \in 1..Len(c) : Finite(c[k]) /\ c[k] = c[Len(c) + 1 - k]

\* C28: before gain scaling the cascaded numerator is the binomial row of
\* its degree d, so its sum is 2^d > 0 and the division sum(a) / sum(b) at
\* line 112 has a non-zero divisor; after scaling, for valid parameters, b is
\* palindromic.
C28_BinomialNumerator ==
  /\ (pc \in {"loop", "designed"}) =>
       /\ b_total = BinomialRow(Len(b_total) - 1)
       /\ SumSeq(DivideAll(b_total, a_total[1])) = F(2 ^ (Len(b_total) - 1))
  /\ (Designed /\ ValidParams) => Palindromic(lp.b)

C28_Witness ==
  /\ Designed
  /\ ValidParams
  /\ order = 5
  /\ Len(lp.b) = 6
  /\ b_total = <<F(1), F(5), F(10), F(10), F(5), F(1)>>
  /\ lp.b[2] = lp.b[5]
  /\ lp.b[2] # lp.b[3]
  /\ lp.b # b_total


\* the error of the filter at point k of the coarse scan
CoarseError(k) ==
  ErrorAt(filter, CoarseFreq(k, sample_rate, num_points), sample_rate)

Searching == pc \in {"coarse", "fine"}

\* x < y, where NonFinite in best_error is its initial value f64::INFINITY
SmallerError(x, y) == Finite(x) /\ (y = NonFinite \/ x < y)

\* C27: the frequency returned by find_3db_cutoff lies in [0, fs/2],
\* whenever that interval is not empty (fs >= 0); its error is no larger
\* than the error at any coarse grid point; during the search best_error
\* never increases and best_freq is replaced only by a frequency whose error
\* is strictly smaller.
C27_BestFrequency ==
  /\ []((pc = "found" /\ sample_rate >= 0) =>
          /\ Le(0, best_freq)
          /\ Le(best_freq, nyquist(sample_rate)))
  /\ [](pc \in {"fine", "found"} =>
          \A k \in 0..(num_points - 1) :
            \A e \in {CoarseError(k)} : Finite(e) => ~Lt(e, best_error))
  /\ [][Searching =>
          /\ ~SmallerError(best_error, best_error')
          /\ (best_freq' # best_freq) => SmallerError(best_error', best_error)]_vars

C27_Witness ==
  /\ pc = "found"
  /\ sample_rate > 0
  /\ Lt(coarse_freq, best_freq)
  /\ Lt(0, best_error)
  /\ Lt(best_error, CoarseError(1))
  /\ order >= 2


\* the pole read at line 81 is complex and the last of the slice
LastPoleIsComplex ==
  /\ pc = "loop"
  /\ i + 1 = Len(poles)
  /\ poles[i + 1][2] # 0

\* C25: the loop of bilinear_transform_cascade terminates for every pole
\* slice: the index i grows by 1 or 2 in every iteration and never passes
\* poles.len(), so every read poles[i] is in bounds and the loop is left
\* after at most poles.len() iterations; a complex pole that is the last
\* element is skipped without adding a section.
C25_LoopTerminatesInBounds ==
  /\ [](pc = "loop" => (i >= 0 /\ i <= Len(poles)))
  /\ [][(pc = "loop" /\ pc' = "loop") => (i' = i + 1 \/ i' = i + 2)]_vars
  /\ [][(pc = "loop" /\ i = Len(poles)) => (pc' = "designed")]_vars
  /\ [][LastPoleIsComplex =>
          (i' = i + 1 /\ sections' = sections /\ b_total' = b_total
             /\ a_total' = a_total)]_vars

C25_Witness ==
  /\ pc = "designed"
  /\ Len(poles) = 3
  /\ poles[3][2] # 0
  /\ poles[1][2] # 0
  /\ sections = <<[degree |-> 2, pole |-> 0]>>
  /\ Len(lp.b) = 3


\* the sum of the a[i] * b[j] with i + j = n (indices from 0), j descending
RECURSIVE PairSum(_, _, _, _)
PairSum(a, b, n, j) ==
  IF j < 0 THEN 0
  ELSE (IF n - j >= 0 /\ n - j < Len(a) THEN Mul(a[n - j + 1], b[j + 1]) ELSE 0)
       + PairSum(a, b, n, j - 1)

\* x and y differ by the rounding of a few products only
Rounded(x, y) == Finite(x) /\ Finite(y) /\ Abs(x - y) <= 16

SameRounded(c, d) ==
  /\ Len(c) = Len(d)
  /\ \A n \in 1..Len(c) : Rounded(c[n], d[n])

\* C30: convolve(a, b) of non-empty inputs has len(a) + len(b) - 1
\* elements, result[n] is the sum of the a[i] * b[j] with i + j = n, it is
\* commutative, its first element is a[0] * b[0]; up to the rounding of the
\* products its coefficient sum is sum(a) * sum(b) and convolving with two
\* sections gives the same result in either order.
C30_ConvolveIsPolynomialProduct ==
  (pc = "convolved") =>
    /\ Len(result) = Len(a_total) + Len(a_section) - 1
    /\ \A n \in 1..Len(result) :
         result[n] = PairSum(a_total, a_section, n - 1, Len(a_section) - 1)
    /\ result = convolve(a_section, a_total)
    /\ result = convolve(a_total, a_section)
    /\ result[1] = Mul(a_total[1], a_section[1])
    /\ Rounded(SumSeq(result), Mul(SumSeq(a_total), SumSeq(a_section)))
    /\ SameRounded(convolve(result, b_section),
                   convolve(convolve(a_total, b_section), a_section))

C30_Witness ==
  /\ pc = "convolved"
  /\ Len(a_total) = 3
  /\ Len(a_section) = 2
  /\ a_total # <<a_total[3], a_total[2], a_total[1]>>
  /\ a_section[1] # a_section[2]
  /\ result[2] # Mul(a_total[2], a_section[1])
  /\ result[2] # Mul(a_total[1], a_section[2])
  /\ a_total[1] = Scale \div 3


\* the file has a line for the parameter and none of its lines for it lacks
\* a number
Given(label) ==
  /\ \E k \in 1..Len(content) : content[k].label = label
  /\ \A k \in 1..Len(content) :
       content[k].label = label => content[k].kind = "number"

\* C23: read_q1_results hands its three values to the caller only when the
\* file gave each of them: when the f_d, f_s or f_B line is missing, or a
\* value fails to parse, it does not return (with the defaults 22050, 3225,
\* 4000 in place of the missing values) but surfaces the problem.
C23_NoSilentDefault ==
  (pc = "read_done") => (Given("f_d") /\ Given("f_s") /\ Given("f_B"))


=============================================================================
